---- MODULE Spec2Model ----
(***************************************************************************)
(* The invoicing API of app/routes/invoices.py over the schema of          *)
(* migrations/002_invoicing_schema_and_seed.py.                            *)
(*                                                                         *)
(* Every handler runs inside one `with get_db() as conn:` block.  get_db    *)
(* (app/database.py) is taken as the design describes it: one connection   *)
(* and one transaction per request, committed when the block ends, which   *)
(* test_api.py observes (a GET after POST is 200, a GET after DELETE is     *)
(* 404).  A handler is therefore one atomic action on the committed        *)
(* tables.  No handler executes a write and raises afterwards, so no       *)
(* action ever has a write to discard.                                     *)
(*                                                                         *)
(* Units.  Python floats are replaced by exact fixed-point integers:       *)
(*   money (price, unit_price, line_total, total)  in cents   (1/100),     *)
(*   quantity                                      in eighths (1/8),       *)
(*   tax                                           in mills   (1/1000).    *)
(* The seed prices and every quantity k/8 are dyadic, so the double        *)
(* product unit_price * qty is exact and round(x, 2) is round-half-even of *)
(* the exact value.  A tax that lies exactly on a half cent is not drawn   *)
(* (there the result depends on the binary expansion of the double).       *)
(***************************************************************************)
EXTENDS Integers, Sequences, FiniteSets, TLC

VARIABLES
    clients,          \* table clients       : set of rows
    products,         \* table products      : set of rows
    invoices,         \* table invoices      : set of rows
    invoice_items,    \* table invoice_items : set of rows
    sqlite_sequence,  \* AUTOINCREMENT counters of invoices and invoice_items
    req,              \* the request the last handler served
    resp,             \* the response it gave
    conn,             \* the create_invoice requests in flight, one per connection
    write_lock        \* the connection whose write transaction is open, or 0

vars == <<clients, products, invoices, invoice_items, sqlite_sequence, req, resp,
          conn, write_lock>>

(* ------------------------------ bounds -------------------------------- *)

MaxItems == 2        \* longest items list of a request
MaxInvoiceId == 3    \* invoices.id values handed out in a behaviour
MaxPage == 3         \* largest page number asked for
MaxConns == 2        \* connections serving create_invoice at the same time

(* -------------------------- program constants ------------------------- *)

MAX_PAGE_SIZE == 100

(* ------------------------------ seed data ----------------------------- *)

SeedProducts ==
    { [id |-> 1, name |-> "Widget A",     price |-> 1000],
      [id |-> 2, name |-> "Widget B",     price |-> 2550],
      [id |-> 3, name |-> "Service Hour", price |-> 7500],
      [id |-> 4, name |-> "License Fee",  price |-> 19900] }

SeedClients ==
    { [id |-> 1, name |-> "Acme Corp", address |-> "123 Main St, City A",
       company_registration_no |-> "REG-001"],
      [id |-> 2, name |-> "Beta Ltd",  address |-> "456 Oak Ave, City B",
       company_registration_no |-> "REG-002"],
      [id |-> 3, name |-> "Gamma Inc", address |-> "789 Pine Rd, City C",
       company_registration_no |-> "REG-003"] }

(* ------------------------------ helpers ------------------------------- *)

Min(a, b) == IF a <= b THEN a ELSE b

\* Truncation towards zero instead of rounding.
round_truncating(n, d) == n \div d

\* Python's round(x, 2) on an exactly represented x = n/d hundredths:
\* to the nearest integer, an exact tie to the even one.
round(n, d) ==
    LET q == n \div d
        r == n % d
    IN  IF 2 * r > d \/ (2 * r = d /\ q % 2 = 1) THEN q + 1 ELSE q

\* Rows of a table in rowid order (ORDER BY id, and the order of a table scan).
RECURSIVE OrderById(_)
OrderById(S) ==
    IF S = {} THEN <<>>
    ELSE LET r == CHOOSE x \in S : \A y \in S : x.id <= y.id
         IN  <<r>> \o OrderById(S \ {r})

RECURSIVE SumLineTotals(_)
SumLineTotals(rows) ==
    IF rows = <<>> THEN 0 ELSE Head(rows).line_total + SumLineTotals(Tail(rows))

NoBody == [none |-> TRUE]

HTTPException(status_code, detail, arg) ==
    [status |-> status_code, detail |-> detail, arg |-> arg, body |-> NoBody]

Response(status_code, body) ==
    [status |-> status_code, detail |-> "", arg |-> 0, body |-> body]

(* --------------------------- request schema --------------------------- *)

\* InvoiceItemCreate: quantity: float = Field(gt=0)
InvoiceItemCreate(line) == line.quantity > 0

\* The schema without min_length=1 on items.
InvoiceCreate_AnyLength(body) ==
    /\ \A i \in 1..Len(body.items) : InvoiceItemCreate(body.items[i])
    /\ body.tax >= 0

\* InvoiceCreate: items: min_length=1; tax: ge=0; invoice_no: str
InvoiceCreate(body) ==
    /\ Len(body.items) >= 1
    /\ \A i \in 1..Len(body.items) : InvoiceItemCreate(body.items[i])
    /\ body.tax >= 0

\* page: Query(ge=1); page_size: Query(ge=1, le=MAX_PAGE_SIZE)
PageQuery(page, page_size) ==
    /\ page >= 1
    /\ page_size >= 1
    /\ page_size <= MAX_PAGE_SIZE

ValidationError == HTTPException(422, "validation error", 0)

(* --------------------------- create_invoice --------------------------- *)

\* One pass of the loop over body.items: the line_rows tuple of a line.
LineRow(line, prod) ==
    [product_id   |-> line.product_id,
     product_name |-> prod.name,
     quantity     |-> line.quantity,
     unit_price   |-> prod.price,
     line_total   |-> round(prod.price * line.quantity, 8)]

\* The loop over body.items: line_rows, or the first product_id that
\* resolves to no row.
RECURSIVE PriceLines(_, _)
PriceLines(items, line_rows) ==
    IF items = <<>> THEN [ok |-> TRUE, line_rows |-> line_rows, product_id |-> 0]
    ELSE LET line == Head(items)
             prod == {p \in products : p.id = line.product_id}
         IN  IF prod = {}
             THEN [ok |-> FALSE, line_rows |-> line_rows,
                   product_id |-> line.product_id]
             ELSE PriceLines(Tail(items),
                             Append(line_rows, LineRow(line, CHOOSE p \in prod : TRUE)))

\* total = round(float(subtotal) + body.tax, 2), subtotal the exact decimal
\* sum of the rounded line totals.
InvoiceTotal(line_rows, tax) == round(SumLineTotals(line_rows) * 10 + tax, 10)

\* A rowid chosen ignoring sqlite_sequence: one more than the largest present.
AutoIncrement_MaxPresent(seq, rows) ==
    IF rows = {} THEN 1
    ELSE (CHOOSE n \in {r.id : r \in rows} : \A r \in rows : r.id <= n) + 1

\* id INTEGER PRIMARY KEY AUTOINCREMENT: one more than the largest rowid the
\* table ever held (kept in sqlite_sequence), whatever was deleted since.
AutoIncrement(seq, rows) == seq + 1

\* INSERT INTO invoices ...; invoice_id = cursor.lastrowid
InvoiceRow(invoice_id, body, total) ==
    [id         |-> invoice_id,
     invoice_no |-> body.invoice_no,
     issue_date |-> body.issue_date,
     due_date   |-> body.due_date,
     client_id  |-> body.client_id,
     address    |-> body.address,
     tax        |-> body.tax,
     total      |-> total]

\* The item rows inserted from the last line to the first.
ItemRows_Reversed(invoice_id, line_rows) ==
    { [id         |-> AutoIncrement(sqlite_sequence.invoice_items, invoice_items)
                          + Len(line_rows) - k,
       invoice_id |-> invoice_id,
       product_id |-> line_rows[k].product_id,
       quantity   |-> line_rows[k].quantity,
       unit_price |-> line_rows[k].unit_price,
       line_total |-> line_rows[k].line_total] : k \in 1..Len(line_rows) }

\* INSERT INTO invoice_items ..., one row per line_rows entry, in order.
ItemRows(invoice_id, line_rows) ==
    { [id         |-> AutoIncrement(sqlite_sequence.invoice_items, invoice_items) + k - 1,
       invoice_id |-> invoice_id,
       product_id |-> line_rows[k].product_id,
       quantity   |-> line_rows[k].quantity,
       unit_price |-> line_rows[k].unit_price,
       line_total |-> line_rows[k].line_total] : k \in 1..Len(line_rows) }

ItemResponse(row) ==
    [product_id   |-> row.product_id,
     product_name |-> row.product_name,
     quantity     |-> row.quantity,
     unit_price   |-> row.unit_price,
     line_total   |-> row.line_total]

ClientRef(row) ==
    [id |-> row.id, name |-> row.name, address |-> row.address,
     company_registration_no |-> row.company_registration_no]

InvoiceResponse(id, invoice_no, issue_date, due_date, client, address, items, tax, total) ==
    [id |-> id, invoice_no |-> invoice_no, issue_date |-> issue_date,
     due_date |-> due_date, client |-> client, address |-> address,
     items |-> items, tax |-> tax, total |-> total]

\* What a handler leaves behind: its response and the tables it wrote.
Outcome(response, inv, items, seq) ==
    [resp |-> response, invoices |-> inv, invoice_items |-> items,
     sqlite_sequence |-> seq]

Raise(exception) == Outcome(exception, invoices, invoice_items, sqlite_sequence)

\* The two INSERT statements and the response of a request whose references
\* resolved.
Persist(body, client_row, line_rows) ==
    LET total      == InvoiceTotal(line_rows, body.tax)
        invoice_id == AutoIncrement(sqlite_sequence.invoices, invoices)
    IN  Outcome(
            Response(201, InvoiceResponse(
                invoice_id, body.invoice_no, body.issue_date, body.due_date,
                ClientRef(client_row), body.address,
                [k \in 1..Len(line_rows) |-> ItemResponse(line_rows[k])],
                body.tax, total)),
            invoices \cup {InvoiceRow(invoice_id, body, total)},
            invoice_items \cup ItemRows(invoice_id, line_rows),
            [invoices      |-> invoice_id,
             invoice_items |-> sqlite_sequence.invoice_items + Len(line_rows)])

\* Rows inserted while the lines are still being resolved: a line that does
\* not resolve leaves the invoice and the lines before it behind.
create_invoice_InsertWhileResolving(body) ==
    LET client_rows == {c \in clients : c.id = body.client_id}
        priced      == PriceLines(body.items, <<>>)
    IN  IF client_rows = {}
        THEN Raise(HTTPException(400, "Invalid client_id", 0))
        ELSE IF \E i \in invoices : i.invoice_no = body.invoice_no
        THEN Raise(HTTPException(500, "UNIQUE constraint failed: invoices.invoice_no", 0))
        ELSE LET done == Persist(body, CHOOSE c \in client_rows : TRUE, priced.line_rows)
             IN  IF priced.ok THEN done
                 ELSE [done EXCEPT !.resp =
                          HTTPException(400, "Invalid product_id", priced.product_id)]

\* The client looked up without its WHERE clause: any client row will do.
create_invoice_AnyClient(body) ==
    LET priced == PriceLines(body.items, <<>>)
    IN  IF clients = {}
        THEN Raise(HTTPException(400, "Invalid client_id", 0))
        ELSE IF ~priced.ok
        THEN Raise(HTTPException(400, "Invalid product_id", priced.product_id))
        ELSE IF \E i \in invoices : i.invoice_no = body.invoice_no
        THEN Raise(HTTPException(500, "UNIQUE constraint failed: invoices.invoice_no", 0))
        ELSE Persist(body, CHOOSE c \in clients : TRUE, priced.line_rows)

\* The lines resolved before the client: an absent product is reported even
\* when the client is absent too.
create_invoice_ProductsFirst(body) ==
    LET client_rows == {c \in clients : c.id = body.client_id}
        priced      == PriceLines(body.items, <<>>)
    IN  IF ~priced.ok
        THEN Raise(HTTPException(400, "Invalid product_id", priced.product_id))
        ELSE IF client_rows = {}
        THEN Raise(HTTPException(400, "Invalid client_id", 0))
        ELSE IF \E i \in invoices : i.invoice_no = body.invoice_no
        THEN Raise(HTTPException(500, "UNIQUE constraint failed: invoices.invoice_no", 0))
        ELSE Persist(body, CHOOSE c \in client_rows : TRUE, priced.line_rows)

create_invoice(body) ==
    LET client_rows == {c \in clients : c.id = body.client_id}
        priced      == PriceLines(body.items, <<>>)
    IN  IF client_rows = {}
        THEN Raise(HTTPException(400, "Invalid client_id", 0))
        ELSE IF ~priced.ok
        THEN Raise(HTTPException(400, "Invalid product_id", priced.product_id))
        ELSE IF \E i \in invoices : i.invoice_no = body.invoice_no
        \* invoice_no TEXT NOT NULL UNIQUE: sqlite3.IntegrityError on the first
        \* INSERT, caught by `except Exception` and re-raised as 500
        THEN Raise(HTTPException(500, "UNIQUE constraint failed: invoices.invoice_no", 0))
        ELSE Persist(body, CHOOSE c \in client_rows : TRUE, priced.line_rows)

(* ---------------------------- list_invoices --------------------------- *)

InvoiceSummary(r) ==
    [id |-> r.id, invoice_no |-> r.invoice_no, issue_date |-> r.issue_date,
     due_date |-> r.due_date, total |-> r.total]

\* The page taken one page too far: OFFSET page * page_size.
SelectPage_OffByOnePage(page_size, offset) ==
    LET ordered == OrderById(invoices)
        off     == offset + page_size
    IN  SubSeq(ordered, off + 1, Min(off + page_size, Len(ordered)))

\* SELECT ... FROM invoices i ORDER BY i.id LIMIT page_size OFFSET offset
SelectPage(page_size, offset) ==
    LET ordered == OrderById(invoices)
    IN  SubSeq(ordered, offset + 1, Min(offset + page_size, Len(ordered)))

list_invoices(page, page_size) ==
    LET total       == Cardinality(invoices)
        offset      == (page - 1) * page_size
        rows        == SelectPage(page_size, offset)
        total_pages == IF page_size # 0
                       THEN (total + page_size - 1) \div page_size ELSE 0
    IN  Response(200,
            [invoices   |-> [k \in 1..Len(rows) |-> InvoiceSummary(rows[k])],
             pagination |-> [total |-> total, page |-> page,
                             page_size |-> page_size, total_pages |-> total_pages]])

(* ----------------------------- get_invoice ---------------------------- *)

\* The items selected without WHERE ii.invoice_id = ?.
SelectItems_AllInvoices(invoice_id) ==
    LET joined == OrderById(invoice_items)
    IN  [k \in 1..Len(joined) |->
            LET ii == joined[k]
                p  == CHOOSE x \in products : x.id = ii.product_id
            IN  [product_id |-> ii.product_id, product_name |-> p.name,
                 quantity |-> ii.quantity, unit_price |-> ii.unit_price,
                 line_total |-> ii.line_total]]

\* The items priced from the joined product row instead of the stored columns.
SelectItems_LivePrice(invoice_id) ==
    LET joined == OrderById({ii \in invoice_items : ii.invoice_id = invoice_id})
    IN  [k \in 1..Len(joined) |->
            LET ii == joined[k]
                p  == CHOOSE x \in products : x.id = ii.product_id
            IN  [product_id |-> ii.product_id, product_name |-> p.name,
                 quantity |-> ii.quantity, unit_price |-> p.price,
                 line_total |-> round(p.price * ii.quantity, 8)]]

\* SELECT ... FROM invoice_items ii JOIN products p ON p.id = ii.product_id
\* WHERE ii.invoice_id = ?  (a scan of invoice_items in rowid order)
SelectItems(invoice_id) ==
    LET item_rows == OrderById({ii \in invoice_items : ii.invoice_id = invoice_id})
        joined    == SelectSeq(item_rows,
                         LAMBDA ii : \E p \in products : p.id = ii.product_id)
    IN  [k \in 1..Len(joined) |->
            LET ii == joined[k]
                p  == CHOOSE x \in products : x.id = ii.product_id
            IN  [product_id |-> ii.product_id, product_name |-> p.name,
                 quantity |-> ii.quantity, unit_price |-> ii.unit_price,
                 line_total |-> ii.line_total]]

get_invoice(invoice_id) ==
    \* SELECT ... FROM invoices i JOIN clients c ON c.id = i.client_id WHERE i.id = ?
    LET rows == {<<i, c>> \in invoices \X clients :
                    i.id = invoice_id /\ c.id = i.client_id}
    IN  IF rows = {}
        THEN HTTPException(404, "Invoice not found", 0)
        ELSE LET row == CHOOSE r \in rows : TRUE
                 i   == row[1]
             IN  Response(200, InvoiceResponse(
                     i.id, i.invoice_no, i.issue_date, i.due_date,
                     ClientRef(row[2]), i.address, SelectItems(invoice_id),
                     i.tax, i.total))

(* ---------------------------- delete_invoice -------------------------- *)

\* DELETE FROM invoice_items without its WHERE clause.
delete_invoice_AllItems(invoice_id) ==
    IF {i \in invoices : i.id = invoice_id} = {}
    THEN Raise(HTTPException(404, "Invoice not found", 0))
    ELSE Outcome(Response(204, NoBody),
                 {i \in invoices : i.id # invoice_id}, {}, sqlite_sequence)

\* The invoice deleted and its items left behind.
delete_invoice_KeepItems(invoice_id) ==
    IF {i \in invoices : i.id = invoice_id} = {}
    THEN Raise(HTTPException(404, "Invoice not found", 0))
    ELSE Outcome(Response(204, NoBody),
                 {i \in invoices : i.id # invoice_id}, invoice_items, sqlite_sequence)

delete_invoice(invoice_id) ==
    IF {i \in invoices : i.id = invoice_id} = {}
    THEN Raise(HTTPException(404, "Invoice not found", 0))
    ELSE Outcome(Response(204, NoBody),
                 \* DELETE FROM invoices WHERE id = ?
                 {i \in invoices : i.id # invoice_id},
                 \* DELETE FROM invoice_items WHERE invoice_id = ?
                 {ii \in invoice_items : ii.invoice_id # invoice_id},
                 sqlite_sequence)

(* ------------------------------ requests ------------------------------ *)

SeqUpTo(S, n) == UNION { [1..k -> S] : k \in 0..n }

Bodies(nos, cids, lists, taxes) ==
    { [invoice_no |-> no, issue_date |-> "2025-02-01", due_date |-> "2025-02-28",
       client_id |-> c, address |-> "123 Main St", items |-> its, tax |-> t] :
      no \in nos, c \in cids, its \in lists, t \in taxes }

\* The lines requests of the store model are made of: Widget A x 2 and
\* Widget B x 1 (the lines of test_api.py), a product that does not exist, and
\* a zero quantity.
LineA == [product_id |-> 1, quantity |-> 16]

LineB == [product_id |-> 2, quantity |-> 8]

LineNoProduct == [product_id |-> 5, quantity |-> 8]

LineZeroQty == [product_id |-> 1, quantity |-> 0]

\* Requests of the store model.  INV-001: items lists of one to three lines,
\* in both orders and with a repeated product, with the absent product at
\* every position, and the empty list.  INV-002 and the empty invoice number:
\* good lists.  Then an absent client, a zero quantity and a negative tax.
CreateBodies ==
    Bodies({"INV-001"}, {1},
           { <<LineA>>, <<LineA, LineB>>, <<LineB, LineA>>, <<LineA, LineB, LineA>>,
             <<LineNoProduct>>, <<LineA, LineNoProduct>>, <<LineNoProduct, LineB>>,
             <<LineA, LineB, LineNoProduct>>, <<>> }, {5000})
    \cup Bodies({"INV-002"}, {3}, { <<LineB>>, <<LineB, LineA>> }, {5000})
    \cup Bodies({""}, {1}, { <<LineA>> }, {5000})
    \cup Bodies({"INV-001"}, {4}, { <<LineA>>, <<LineNoProduct>> }, {5000})
    \cup Bodies({"INV-001"}, {1}, { <<LineZeroQty>>, <<LineA, LineZeroQty>> }, {5000})
    \cup Bodies({"INV-001"}, {1}, { <<LineA>> }, {0 - 1000})

PageInputs == 0..MaxPage

PageSizeInputs == {1, 2, MAX_PAGE_SIZE + 1}

InvoiceIdInputs == 1..(MaxInvoiceId + 1)

\* Requests of the pricing model: one invoice, every seed product, quantities
\* 0.125 .. 2.0 and taxes 0, 0.004, 0.126 and 5.0.
CalcBodies ==
    Bodies({"INV-001"}, {1},
           SeqUpTo({ [product_id |-> p, quantity |-> q] :
                       p \in 1..4, q \in {1, 2, 3, 6, 8, 16} }, MaxItems) \ {<<>>},
           {0, 4, 126, 5000})

\* Requests of the concurrent model: good requests under two invoice
\* numbers, an absent client and an absent product.
ConcBodies ==
    Bodies({"INV-001"}, {1}, { <<LineA>>, <<LineA, LineB>>, <<LineNoProduct>> }, {5000})
    \cup Bodies({"INV-002"}, {3}, { <<LineB>> }, {5000})
    \cup Bodies({"INV-001"}, {4}, { <<LineA>> }, {5000})

Conns == 1..MaxConns

\* A connection that serves no request.
IdleConn ==
    [pc |-> "idle", body |-> NoBody, client |-> NoBody, line_rows |-> <<>>,
     total |-> 0, invoice_id |-> 0, inserted |-> 0, resp |-> Response(0, NoBody)]

(* ------------------------------ actions ------------------------------- *)

Init ==
    /\ clients = SeedClients
    /\ products = SeedProducts
    /\ invoices = {}
    /\ invoice_items = {}
    /\ sqlite_sequence = [invoices |-> 0, invoice_items |-> 0]
    /\ req = [op |-> "none"]
    /\ resp = Response(0, NoBody)
    /\ conn = [c \in Conns |-> IdleConn]
    /\ write_lock = 0

\* The end of a handler's get_db block: its writes become the committed
\* tables and its response goes out.
Serve(request, outcome) ==
    /\ req' = request
    /\ resp' = outcome.resp
    /\ invoices' = outcome.invoices
    /\ invoice_items' = outcome.invoice_items
    /\ sqlite_sequence' = outcome.sqlite_sequence
    /\ UNCHANGED <<clients, products, conn, write_lock>>

\* POST /invoices
CreateInvoice(body) ==
    /\ sqlite_sequence.invoices < MaxInvoiceId
    /\ Serve([op |-> "create", body |-> body],
             IF InvoiceCreate(body) THEN create_invoice(body) ELSE Raise(ValidationError))

\* GET /invoices?page=&page_size=
ListInvoices(page, page_size) ==
    Serve([op |-> "list", page |-> page, page_size |-> page_size],
          Raise(IF PageQuery(page, page_size)
                THEN list_invoices(page, page_size) ELSE ValidationError))

\* GET /invoices/{invoice_id}
GetInvoice(invoice_id) ==
    Serve([op |-> "get", invoice_id |-> invoice_id], Raise(get_invoice(invoice_id)))

\* DELETE /invoices/{invoice_id}
DeleteInvoice(invoice_id) ==
    Serve([op |-> "delete", invoice_id |-> invoice_id], delete_invoice(invoice_id))

Next ==
    \/ \E body \in CreateBodies : CreateInvoice(body)
    \/ \E page \in PageInputs, page_size \in PageSizeInputs : ListInvoices(page, page_size)
    \/ \E invoice_id \in InvoiceIdInputs : GetInvoice(invoice_id)
    \/ \E invoice_id \in InvoiceIdInputs : DeleteInvoice(invoice_id)

Spec == Init /\ [][Next]_vars

\* The pricing model: a first invoice created from the wide request set.
NextCalc ==
    /\ sqlite_sequence.invoices = 0
    /\ \E body \in CalcBodies : CreateInvoice(body)

SpecCalc == Init /\ [][NextCalc]_vars

(* -------------------- create_invoice, statement by statement ---------- *)
(* Requests served at the same time, each on its own connection.  A        *)
(* statement is one step.  Reads see the committed tables.  The first      *)
(* INSERT opens the connection's write transaction, which it gets only     *)
(* when no other connection has one open (SQLite has one writer; the       *)
(* other waits); its rows are the connection's own until the get_db block  *)
(* ends and commits them.                                                  *)

\* The request leaves: the handler's response, the connection at rest.
Respond(c, response) ==
    /\ conn' = [conn EXCEPT ![c].pc = "done", ![c].resp = response]
    /\ req' = [op |-> "create", body |-> conn[c].body]
    /\ resp' = response

\* A unique index on invoices.invoice_no that lets every value in.
InvoiceNoTaken_Never(invoice_no) == FALSE

\* invoice_no TEXT NOT NULL UNIQUE
InvoiceNoTaken(invoice_no) == \E i \in invoices : i.invoice_no = invoice_no

\* def create_invoice(body: InvoiceCreate): the body is validated
Receive(c, body) ==
    /\ conn[c].pc = "idle"
    /\ IF InvoiceCreate(body)
       THEN /\ conn' = [conn EXCEPT ![c].pc = "select_client", ![c].body = body]
            /\ UNCHANGED <<req, resp>>
       ELSE /\ conn' = [conn EXCEPT ![c].pc = "done", ![c].body = body,
                                      ![c].resp = ValidationError]
            /\ req' = [op |-> "create", body |-> body]
            /\ resp' = ValidationError
    /\ UNCHANGED <<clients, products, invoices, invoice_items, sqlite_sequence,
                   write_lock>>

\* SELECT ... FROM clients WHERE id = ?
SelectClient(c) ==
    /\ conn[c].pc = "select_client"
    /\ LET client_rows == {r \in clients : r.id = conn[c].body.client_id}
       IN  IF client_rows = {}
           THEN Respond(c, HTTPException(400, "Invalid client_id", 0))
           ELSE /\ conn' = [conn EXCEPT ![c].pc = "select_products",
                                          ![c].client = CHOOSE r \in client_rows : TRUE]
                /\ UNCHANGED <<req, resp>>
    /\ UNCHANGED <<clients, products, invoices, invoice_items, sqlite_sequence,
                   write_lock>>

\* for line in body.items: SELECT ... FROM products WHERE id = ?; then total
SelectProducts(c) ==
    /\ conn[c].pc = "select_products"
    /\ LET priced == PriceLines(conn[c].body.items, <<>>)
       IN  IF ~priced.ok
           THEN Respond(c, HTTPException(400, "Invalid product_id", priced.product_id))
           ELSE /\ conn' = [conn EXCEPT
                              ![c].pc = "insert_invoice",
                              ![c].line_rows = priced.line_rows,
                              ![c].total = InvoiceTotal(priced.line_rows,
                                                        conn[c].body.tax)]
                /\ UNCHANGED <<req, resp>>
    /\ UNCHANGED <<clients, products, invoices, invoice_items, sqlite_sequence,
                   write_lock>>

\* INSERT INTO invoices ...; invoice_id = cursor.lastrowid
InsertInvoice(c) ==
    /\ conn[c].pc = "insert_invoice"
    /\ write_lock = 0
    /\ IF InvoiceNoTaken(conn[c].body.invoice_no)
       THEN /\ Respond(c, HTTPException(
                   500, "UNIQUE constraint failed: invoices.invoice_no", 0))
            /\ UNCHANGED write_lock
       ELSE /\ conn' = [conn EXCEPT
                          ![c].pc = "insert_items",
                          ![c].invoice_id =
                              AutoIncrement(sqlite_sequence.invoices, invoices)]
            /\ write_lock' = c
            /\ UNCHANGED <<req, resp>>
    /\ UNCHANGED <<clients, products, invoices, invoice_items, sqlite_sequence>>

\* for ... in line_rows: INSERT INTO invoice_items ...
InsertItem(c) ==
    /\ conn[c].pc = "insert_items"
    /\ conn[c].inserted < Len(conn[c].line_rows)
    /\ conn' = [conn EXCEPT ![c].inserted = @ + 1]
    /\ UNCHANGED <<clients, products, invoices, invoice_items, sqlite_sequence,
                   req, resp, write_lock>>

\* return InvoiceResponse(...), and the get_db block ends: the transaction
\* is committed.
Commit(c) ==
    /\ conn[c].pc = "insert_items"
    /\ conn[c].inserted = Len(conn[c].line_rows)
    /\ write_lock = c
    /\ LET done == Persist(conn[c].body, conn[c].client, conn[c].line_rows)
       IN  /\ Respond(c, done.resp)
           /\ invoices' = done.invoices
           /\ invoice_items' = done.invoice_items
           /\ sqlite_sequence' = done.sqlite_sequence
    /\ write_lock' = 0
    /\ UNCHANGED <<clients, products>>

NextConc ==
    \/ \E c \in Conns, body \in ConcBodies : Receive(c, body)
    \/ \E c \in Conns : SelectClient(c)
    \/ \E c \in Conns : SelectProducts(c)
    \/ \E c \in Conns : InsertInvoice(c)
    \/ \E c \in Conns : InsertItem(c)
    \/ \E c \in Conns : Commit(c)

SpecConc == Init /\ [][NextConc]_vars

(* ------------------------- a product is repriced ---------------------- *)

\* No handler writes products; its price column is changed in the store
\* itself (UPDATE products SET price = ? WHERE id = ?).
SetProductPrice(product_id, price) ==
    /\ products' = { IF p.id = product_id THEN [p EXCEPT !.price = price] ELSE p :
                       p \in products }
    /\ req' = [op |-> "set_price", product_id |-> product_id, price |-> price]
    /\ resp' = Response(0, NoBody)
    /\ UNCHANGED <<clients, invoices, invoice_items, sqlite_sequence, conn, write_lock>>

\* Requests of the repricing model: good requests over Widget A and Widget B.
RepriceBodies ==
    Bodies({"INV-001"}, {1}, { <<LineA>>, <<LineA, LineB>> }, {5000})
    \cup Bodies({"INV-002"}, {3}, { <<LineB, LineA>> }, {5000})

\* Widget A at its seed price 10.00 and at 12.50.
PriceInputs == {1000, 1250}

NextReprice ==
    \/ \E body \in RepriceBodies : CreateInvoice(body)
    \/ \E invoice_id \in InvoiceIdInputs : GetInvoice(invoice_id)
    \/ \E invoice_id \in InvoiceIdInputs : DeleteInvoice(invoice_id)
    \/ \E price \in PriceInputs : SetProductPrice(1, price)

SpecReprice == Init /\ [][NextReprice]_vars

(* ------------------------- order of the lookups ----------------------- *)

LineNoProduct6 == [product_id |-> 6, quantity |-> 16]

\* Requests of the lookup model: lists with two absent products in both
\* orders, after lines that resolve and between them, under a client that
\* exists and under one that does not; and good requests that fill the store.
RefBodies ==
    Bodies({"INV-001"}, {1, 4},
           { <<LineA>>, <<LineNoProduct>>,
             <<LineNoProduct6, LineNoProduct>>, <<LineNoProduct, LineNoProduct6>>,
             <<LineA, LineNoProduct, LineNoProduct6>>,
             <<LineA, LineNoProduct6, LineB, LineNoProduct>> }, {5000})
    \cup Bodies({"INV-002"}, {3}, { <<LineB>> }, {5000})
    \cup Bodies({"INV-003"}, {2}, { <<LineB, LineA>> }, {5000})

NextRefs ==
    \/ \E body \in RefBodies : CreateInvoice(body)
    \/ \E invoice_id \in InvoiceIdInputs : DeleteInvoice(invoice_id)

SpecRefs == Init /\ [][NextRefs]_vars

(* ------------------------------ properties ---------------------------- *)

Abs(x) == IF x < 0 THEN 0 - x ELSE x

\* A createInvoice input as the specification describes it: a non-empty items
\* list, positive quantities, a tax that is not negative.
WellFormed(body) ==
    /\ body.items # <<>>
    /\ \A k \in 1..Len(body.items) : body.items[k].quantity >= 1
    /\ ~(body.tax < 0)

ProductExists(product_id) == \E p \in products : p.id = product_id

ClientExists(client_id) == \E c \in clients : c.id = client_id

\* C1: a well-formed createInvoice request with a product_id that does not
\* exist, at whatever position of items, is answered 400 InvalidReference and
\* leaves the invoices and invoice_items tables exactly as they were.
C1_InvalidProductPersistsNothing ==
    [][ ( /\ req'.op = "create"
          /\ WellFormed(req'.body)
          /\ \E k \in 1..Len(req'.body.items) :
                 ~ProductExists(req'.body.items[k].product_id) )
        => ( /\ resp'.status = 400
             /\ resp'.detail \in {"Invalid client_id", "Invalid product_id"}
             /\ invoices' = invoices
             /\ invoice_items' = invoice_items ) ]_vars

\* The absent product follows a line that resolved, in a store that holds an
\* invoice, and the request was refused naming it.
C1_Witness ==
    /\ req.op = "create"
    /\ WellFormed(req.body)
    /\ Len(req.body.items) >= 2
    /\ ProductExists(req.body.items[1].product_id)
    /\ ~ProductExists(req.body.items[2].product_id)
    /\ resp.status = 400
    /\ resp.arg = req.body.items[2].product_id
    /\ invoices # {}
    /\ \A i \in invoices : i.invoice_no # req.body.invoice_no

\* C2: a well-formed createInvoice request whose client_id does not exist is
\* answered 400 "Invalid client_id", and the numbers of invoices and of invoice
\* items are what they were before the call.
C2_InvalidClientPersistsNothing ==
    [][ ( /\ req'.op = "create"
          /\ WellFormed(req'.body)
          /\ ~ClientExists(req'.body.client_id) )
        => ( /\ resp'.status = 400
             /\ resp'.detail = "Invalid client_id"
             /\ Cardinality(invoices') = Cardinality(invoices)
             /\ Cardinality(invoice_items') = Cardinality(invoice_items) ) ]_vars

\* A request with an absent client and lines that all resolve was refused, in
\* a store that holds an invoice.
C2_Witness ==
    /\ req.op = "create"
    /\ WellFormed(req.body)
    /\ ~ClientExists(req.body.client_id)
    /\ \A k \in 1..Len(req.body.items) : ProductExists(req.body.items[k].product_id)
    /\ resp.status = 400
    /\ resp.detail = "Invalid client_id"
    /\ invoices # {}

RECURSIVE SumOfLineTotals(_, _)
SumOfLineTotals(items, n) ==
    IF n = 0 THEN 0 ELSE items[n].line_total + SumOfLineTotals(items, n - 1)

\* C3: a created invoice's response has as many items as the request; each
\* line_total is unit_price * quantity rounded to the cent (the nearest cent,
\* an exact half to the even cent); the total is the sum of those rounded
\* line totals plus tax, rounded to the nearest cent; and 10.00 x 2 with
\* 25.50 x 1 and tax 5.0 give 20.00, 25.50 and 50.50.
C3_TotalsAreRounded ==
    (req.op = "create" /\ resp.status = 201) =>
        LET asked == req.body.items
            items == resp.body.items
            exact == 10 * SumOfLineTotals(items, Len(items)) + req.body.tax
        IN  /\ Len(items) = Len(asked)
            /\ \A k \in 1..Len(items) :
                   LET off == Abs(8 * items[k].line_total
                                  - items[k].unit_price * asked[k].quantity)
                   IN  \/ 2 * off < 8
                       \/ 2 * off = 8 /\ items[k].line_total % 2 = 0
            /\ 2 * Abs(10 * resp.body.total - exact) <= 10
            /\ ( /\ asked = << [product_id |-> 1, quantity |-> 16],
                               [product_id |-> 2, quantity |-> 8] >>
                 /\ req.body.tax = 5000 )
               => ( /\ items[1].line_total = 2000
                    /\ items[2].line_total = 2550
                    /\ resp.body.total = 5050 )

\* Two lines were priced, one of them with a product that is not a whole
\* number of cents, and the tax is not a whole number of cents either.
C3_Witness ==
    /\ req.op = "create"
    /\ resp.status = 201
    /\ Len(resp.body.items) = 2
    /\ \E k \in 1..2 :
           (resp.body.items[k].unit_price * req.body.items[k].quantity) % 8 # 0
    /\ req.body.tax % 10 # 0

\* C4: right after a successful createInvoice, getInvoice on the returned id
\* answers 200 with the same id, client, items and total as the create
\* response.
C4_GetReturnsWhatCreateReturned ==
    (req.op = "create" /\ resp.status = 201) =>
        LET got == get_invoice(resp.body.id)
        IN  /\ got.status = 200
            /\ got.body.id = resp.body.id
            /\ got.body.client = resp.body.client
            /\ got.body.items = resp.body.items
            /\ got.body.total = resp.body.total

\* An invoice of several lines was created beside another invoice.
C4_Witness ==
    /\ req.op = "create"
    /\ resp.status = 201
    /\ Len(resp.body.items) >= 2
    /\ \E i \in invoices : i.id # resp.body.id

\* An invoice id that was handed out and whose invoice and items are gone.
Deleted(id) ==
    /\ id <= sqlite_sequence.invoices
    /\ get_invoice(id).status = 404
    /\ \A ii \in invoice_items : ii.invoice_id # id

\* C5: a successful deleteInvoice(id) leaves no invoice_item of that invoice
\* and getInvoice(id) answers 404, and that stays so in every later state,
\* whatever is created afterwards.
C5_DeletedStaysDeleted ==
    [][ \A id \in InvoiceIdInputs :
          ( \/ req'.op = "delete" /\ req'.invoice_id = id /\ resp'.status = 204
            \/ Deleted(id) )
          => Deleted(id)' ]_vars

\* getInvoice answered 404 for an id that was handed out, after a later
\* invoice had been created.
C5_Witness ==
    /\ req.op = "get"
    /\ resp.status = 404
    /\ req.invoice_id < sqlite_sequence.invoices
    /\ \E i \in invoices : i.id > req.invoice_id

\* C6: a well-formed createInvoice request whose references resolve and whose
\* invoice_no an existing invoice already has is refused with a client or
\* conflict error (a 4xx status, not 500), persists no invoice and no item,
\* and leaves the first invoice as getInvoice returned it before.
C6_DuplicateInvoiceNoIsConflict ==
    [][ ( /\ req'.op = "create"
          /\ WellFormed(req'.body)
          /\ ClientExists(req'.body.client_id)
          /\ \A k \in 1..Len(req'.body.items) :
                 ProductExists(req'.body.items[k].product_id)
          /\ \E i \in invoices : i.invoice_no = req'.body.invoice_no )
        => ( /\ resp'.status \in 400..499
             /\ invoices' = invoices
             /\ invoice_items' = invoice_items
             /\ \A i \in invoices :
                    i.invoice_no = req'.body.invoice_no
                    => get_invoice(i.id)' = get_invoice(i.id) ) ]_vars

\* What the code does hold to on a duplicate invoice_no: nothing is persisted
\* and the first invoice stays retrievable, whatever the status.
C6_DuplicatePersistsNothing ==
    [][ ( /\ req'.op = "create"
          /\ WellFormed(req'.body)
          /\ \E i \in invoices : i.invoice_no = req'.body.invoice_no )
        => ( /\ resp'.status >= 400
             /\ invoices' = invoices
             /\ invoice_items' = invoice_items
             /\ \A i \in invoices :
                    i.invoice_no = req'.body.invoice_no
                    => /\ get_invoice(i.id)' = get_invoice(i.id)
                       /\ get_invoice(i.id).status = 200 ) ]_vars

\* The rank of an invoice in the ascending-id ordering, from 1.
Position(i) == Cardinality({j \in invoices : j.id <= i.id})

\* C7: for every page >= 1 and page_size in 1..100, listInvoices returns
\* total = the number of invoices, total_pages = ceil(total / page_size), and
\* exactly the invoices at positions (page-1)*page_size+1 .. page*page_size
\* of the ascending-id ordering, in that order.
C7_ListReturnsThePage ==
    \A page \in 1..MaxPage, page_size \in (1..MaxInvoiceId) \cup {MAX_PAGE_SIZE} :
        LET got   == list_invoices(page, page_size).body
            rows  == got.invoices
            first == (page - 1) * page_size
            total == Cardinality(invoices)
        IN  /\ got.pagination.total = total
            /\ got.pagination.total_pages * page_size >= total
            /\ (got.pagination.total_pages - 1) * page_size < total
            /\ got.pagination.total_pages >= 0
            /\ Len(rows) = Cardinality({i \in invoices :
                               Position(i) > first /\ Position(i) <= first + page_size})
            /\ \A k \in 1..Len(rows) :
                   \E i \in invoices :
                       /\ Position(i) = first + k
                       /\ rows[k].id = i.id
                       /\ rows[k].invoice_no = i.invoice_no
                       /\ rows[k].total = i.total

\* The second page of size one was listed from a store of several invoices
\* whose ids have a gap, and held the second invoice.
C7_Witness ==
    /\ req.op = "list"
    /\ req.page = 2
    /\ req.page_size = 1
    /\ resp.status = 200
    /\ Len(resp.body.invoices) = 1
    /\ Cardinality(invoices) >= 2
    /\ \E i \in invoices : i.id > Position(i)
    /\ \E i \in invoices : Position(i) = 2 /\ resp.body.invoices[1].id = i.id

\* C8: in every state a request can observe, every persisted invoice has at
\* least one invoice_item.
C8_InvoiceHasItems ==
    \A i \in invoices : \E ii \in invoice_items : ii.invoice_id = i.id

\* A request without items was refused in a store that holds an invoice after
\* another one was deleted.
C8_Witness ==
    /\ req.op = "create"
    /\ req.body.items = <<>>
    /\ resp.status = 422
    /\ invoices # {}
    /\ Cardinality(invoices) < sqlite_sequence.invoices

\* C9: a successful deleteInvoice(id) removes exactly the invoice with that
\* id and the invoice_items of that invoice; the other invoices, their items,
\* the clients and the products are unchanged.
C9_DeleteRemovesOnlyThatInvoice ==
    [][ (req'.op = "delete" /\ resp'.status = 204)
        => ( /\ \E i \in invoices : i.id = req'.invoice_id
             /\ invoices' = {i \in invoices : i.id # req'.invoice_id}
             /\ invoice_items' =
                    {ii \in invoice_items : ii.invoice_id # req'.invoice_id}
             /\ clients' = clients
             /\ products' = products ) ]_vars

\* An invoice was deleted and another one, with its items, is still there.
C9_Witness ==
    /\ req.op = "delete"
    /\ resp.status = 204
    /\ req.invoice_id <= sqlite_sequence.invoices
    /\ invoices # {}
    /\ invoice_items # {}

\* C10: a createInvoice request whose invoice_no is the empty string is
\* refused as a ValidationError (422) and no invoice with an empty invoice_no
\* is ever persisted.
C10_EmptyInvoiceNoRejected ==
    /\ (req.op = "create" /\ req.body.invoice_no = "") => resp.status = 422
    /\ \A i \in invoices : i.invoice_no # ""

PriceOf(product_id) == (CHOOSE p \in products : p.id = product_id).price

\* C11: an item's unit_price is the product's price when the invoice is
\* created, and a later change of a product's price leaves what getInvoice
\* returns for every existing invoice (unit_price, line_total, total and the
\* rest) as it was.
C11_PriceIsFixedAtCreation ==
    [][ /\ (req'.op = "create" /\ resp'.status = 201)
           => \A k \in 1..Len(resp'.body.items) :
                  resp'.body.items[k].unit_price
                      = PriceOf(resp'.body.items[k].product_id)
        /\ req'.op = "set_price"
           => \A id \in InvoiceIdInputs : get_invoice(id)' = get_invoice(id) ]_vars

\* getInvoice returned an item at a unit_price that is no longer the
\* product's price.
C11_Witness ==
    /\ req.op = "get"
    /\ resp.status = 200
    /\ \E k \in 1..Len(resp.body.items) :
           /\ resp.body.items[k].unit_price
                  # PriceOf(resp.body.items[k].product_id)
           /\ resp.body.items[k].line_total * 8
                  = resp.body.items[k].unit_price * resp.body.items[k].quantity

\* A request in flight or answered whose input is well-formed and whose
\* client and products exist.
Resolvable(body) ==
    /\ WellFormed(body)
    /\ ClientExists(body.client_id)
    /\ \A k \in 1..Len(body.items) : ProductExists(body.items[k].product_id)

Created(c) == conn[c].pc = "done" /\ conn[c].resp.status = 201

RECURSIVE ItemsCreated(_)
ItemsCreated(n) ==
    IF n = 0 THEN 0
    ELSE (IF Created(n) THEN Len(conn[n].body.items) ELSE 0) + ItemsCreated(n - 1)

FirstAbsent(items) ==
    IF \A k \in 1..Len(items) : ProductExists(items[k].product_id) THEN 0
    ELSE CHOOSE k \in 1..Len(items) :
             /\ ~ProductExists(items[k].product_id)
             /\ \A j \in 1..(k - 1) : ProductExists(items[j].product_id)

\* C13: createInvoice resolves the client before any product: a well-formed
\* request whose client does not exist is refused with "Invalid client_id"
\* whatever its products are; when the client exists and several lines name
\* products that do not, the refusal names the product_id of the first such
\* line in input order.
C13_ClientThenFirstProduct ==
    (req.op = "create" /\ WellFormed(req.body))
    => /\ ~ClientExists(req.body.client_id)
          => /\ resp.status = 400
             /\ resp.detail = "Invalid client_id"
       /\ (ClientExists(req.body.client_id) /\ FirstAbsent(req.body.items) # 0)
          => /\ resp.status = 400
             /\ resp.detail = "Invalid product_id"
             /\ resp.arg = req.body.items[FirstAbsent(req.body.items)].product_id

\* A request with an absent client and an absent product was refused for its
\* client.
C13_Witness_Client ==
    /\ req.op = "create"
    /\ WellFormed(req.body)
    /\ ~ClientExists(req.body.client_id)
    /\ FirstAbsent(req.body.items) # 0
    /\ resp.detail = "Invalid client_id"

\* A request with two different absent products, the first of them after a
\* line that resolves, was refused naming the first one, in a store that
\* holds an invoice.
C13_Witness ==
    /\ req.op = "create"
    /\ WellFormed(req.body)
    /\ ClientExists(req.body.client_id)
    /\ FirstAbsent(req.body.items) >= 2
    /\ \E k \in 1..Len(req.body.items) :
           /\ k > FirstAbsent(req.body.items)
           /\ ~ProductExists(req.body.items[k].product_id)
           /\ req.body.items[k].product_id
                  # req.body.items[FirstAbsent(req.body.items)].product_id
    /\ resp.arg = req.body.items[FirstAbsent(req.body.items)].product_id
    /\ invoices # {}

\* C14: a successful createInvoice inserts one invoice row, the one the
\* response names, and one invoice_items row per request line, all of them
\* new rows of that invoice whose ids ascend in input order: the k-th of them
\* holds the product_id and quantity of the k-th request line.  The k-th item
\* of the response is the k-th request line too; lines with the same
\* product_id are neither merged nor reordered.
C14_LinesKeepInputOrder ==
    [][ (req'.op = "create" /\ resp'.status = 201)
        => LET lines == req'.body.items
               rows  == OrderById(invoice_items' \ invoice_items)
           IN  /\ \E i \in invoices' :
                      i.id = resp'.body.id /\ invoices' \ invoices = {i}
               /\ invoice_items \subseteq invoice_items'
               /\ Len(rows) = Len(lines)
               /\ Len(resp'.body.items) = Len(lines)
               /\ \A k \in 1..Len(lines) :
                      /\ rows[k].invoice_id = resp'.body.id
                      /\ rows[k].product_id = lines[k].product_id
                      /\ rows[k].quantity = lines[k].quantity
                      /\ \A ii \in invoice_items : ii.id < rows[k].id
                      /\ resp'.body.items[k].product_id = lines[k].product_id
                      /\ resp'.body.items[k].quantity = lines[k].quantity ]_vars

\* An invoice of three lines, the first and the third on the same product,
\* was created in a store that holds the items of another invoice.
C14_Witness ==
    /\ req.op = "create"
    /\ resp.status = 201
    /\ Len(req.body.items) = 3
    /\ req.body.items[1].product_id = req.body.items[3].product_id
    /\ req.body.items[1].product_id # req.body.items[2].product_id
    /\ Cardinality({ii \in invoice_items : ii.invoice_id = resp.body.id}) = 3
    /\ \E ii \in invoice_items : ii.invoice_id # resp.body.id

\* C15: in every state of the store, every invoice_items row belongs to an
\* invoice that exists and names a product that exists, and every invoice
\* names a client that exists.
C15_ReferencesResolve ==
    /\ \A ii \in invoice_items :
           /\ \E i \in invoices : i.id = ii.invoice_id
           /\ ProductExists(ii.product_id)
    /\ \A i \in invoices : ClientExists(i.client_id)

\* An invoice has been deleted, another one is there with two items or more,
\* and the last request, a create, was refused.
C15_Witness ==
    /\ req.op = "create"
    /\ resp.status >= 400
    /\ sqlite_sequence.invoices > Cardinality(invoices)
    /\ \E i \in invoices :
           Cardinality({ii \in invoice_items : ii.invoice_id = i.id}) >= 2

====
